---- MODULE Spec2Model ----
(***************************************************************************)
(* Model of app.py: the Streamlit product-description generator.           *)
(*                                                                         *)
(* Text is a sequence of atoms (one-character strings for the attribute    *)
(* text and for JSON punctuation and digits, whole words elsewhere).       *)
(* A Python value is a tagged record: [t |-> "none"], [t |-> "str", v],    *)
(* [t |-> "int", v], [t |-> "bool", v], [t |-> "list", v] and              *)
(* [t |-> "dict", v], a dict being its sequence of <<key, value>> items in *)
(* insertion order.                                                        *)
(***************************************************************************)
EXTENDS Integers, Sequences, FiniteSets, TLC

VARIABLES
    pc,            \* position of the script run
    environ,       \* os.environ.get("GROQ_API_KEY") as the process sees it
    api_key,       \* module global api_key
    client,        \* module global client (the OpenAI object), or Undef
    form,          \* TRUE once the title, sidebar and button are rendered
    cat,           \* st.selectbox("Category", ...)
    p_name,        \* st.text_input("Product Name", ...)
    attr_input,    \* st.text_area("Features ...")
    tone,          \* st.select_slider("Tone", ...)
    attributes,    \* the dict built by the submit handler
    product_data,  \* the ProductInput object
    description,   \* generate_description's return value
    eval_result,   \* evaluate_quality's return value
    requests,      \* chat.completions.create calls issued in this run, in order
    display,       \* elements shown on the page in this run, in order
    exception,     \* the uncaught exception that ended the run, or Undef
    gen_response,  \* what the remote service answered to the description call
    eval_response, \* what the remote service answered to the evaluation call
    prompt_out     \* result of a direct call of get_system_prompt

vars == <<pc, environ, api_key, client, form, cat, p_name, attr_input, tone,
          attributes, product_data, description, eval_result, requests,
          display, exception, gen_response, eval_response, prompt_out>>

(***************************************************************************)
(* Bounds                                                                  *)
(***************************************************************************)
MaxLen == 6

(***************************************************************************)
(* Python values                                                           *)
(***************************************************************************)
Undef == [t |-> "undef"]

NoneV == [t |-> "none"]

StrV(s) == [t |-> "str", v |-> s]

IntV(n) == [t |-> "int", v |-> n]

BoolV(b) == [t |-> "bool", v |-> b]

ListV(s) == [t |-> "list", v |-> s]

DictV(items) == [t |-> "dict", v |-> items]

\* bool(v) for the values the program tests
Truthy(val) ==
    CASE val.t = "none" -> FALSE
      [] val.t = "str"  -> val.v # <<>>
      [] val.t = "int"  -> val.v # 0
      [] val.t = "bool" -> val.v
      [] OTHER          -> val.v # <<>>

(***************************************************************************)
(* dict operations on a sequence of <<key, value>> items                   *)
(***************************************************************************)
DictHas(items, k) == \E i \in 1..Len(items) : items[i][1] = k

\* d[k] = v: overwrite in place when the key exists, else insert at the end
DictSet(items, k, val) ==
    IF DictHas(items, k)
        THEN [i \in 1..Len(items) |->
                 IF items[i][1] = k THEN <<k, val>> ELSE items[i]]
        ELSE Append(items, <<k, val>>)

\* d.get(k): the value, or None
DictGet(items, k) ==
    IF DictHas(items, k)
        THEN items[CHOOSE i \in 1..Len(items) : items[i][1] = k][2]
        ELSE NoneV

DictKeys(items) == {items[i][1] : i \in 1..Len(items)}

(***************************************************************************)
(* str operations                                                          *)
(***************************************************************************)
IsSpace(c) == c \in {" ", "\n", "\t", "\r"}

RECURSIVE LStrip(_)
LStrip(s) ==
    IF s # <<>> /\ IsSpace(Head(s)) THEN LStrip(Tail(s)) ELSE s

RECURSIVE RStrip(_)
RStrip(s) ==
    IF s # <<>> /\ IsSpace(s[Len(s)])
        THEN RStrip(SubSeq(s, 1, Len(s) - 1))
        ELSE s

\* str.strip()
Strip(s) == RStrip(LStrip(s))

\* sep in s
Contains(s, sep) == \E i \in 1..Len(s) : s[i] = sep

\* str.find(sep) + 1: index of the first sep, 0 when there is none
RECURSIVE Find(_, _, _)
Find(s, sep, i) ==
    IF i > Len(s) THEN 0
    ELSE IF s[i] = sep THEN i
    ELSE Find(s, sep, i + 1)

\* s.split(sep): every piece between separators, empty pieces kept
RECURSIVE Split(_, _)
Split(s, sep) ==
    LET i == Find(s, sep, 1)
    IN  IF i = 0 THEN <<s>>
        ELSE <<SubSeq(s, 1, i - 1)>> \o Split(SubSeq(s, i + 1, Len(s)), sep)

\* s.split(sep, 1): at most one split, at the first separator
Split1(s, sep) ==
    LET i == Find(s, sep, 1)
    IN  IF i = 0 THEN <<s>>
        ELSE <<SubSeq(s, 1, i - 1), SubSeq(s, i + 1, Len(s))>>

\* sep.join(parts)
RECURSIVE Join(_, _)
Join(parts, sep) ==
    IF parts = <<>> THEN <<>>
    ELSE IF Len(parts) = 1 THEN parts[1]
    ELSE parts[1] \o sep \o Join(Tail(parts), sep)

(***************************************************************************)
(* Submit handler: attribute parsing (the for loop over the lines)         *)
(***************************************************************************)
\* one iteration of the loop body
ParseLine(attrs, line) ==
    IF Contains(line, ":")
        THEN LET kv == Split1(line, ":")
             IN  DictSet(attrs, Strip(kv[1]), Strip(kv[2]))
        ELSE attrs

RECURSIVE ParseLines(_, _)
ParseLines(attrs, lines) ==
    IF lines = <<>> THEN attrs
    ELSE ParseLines(ParseLine(attrs, Head(lines)), Tail(lines))

\* mutant: the line is split at its last colon
RECURSIVE FindLast(_, _, _)
FindLast(s, sep, i) ==
    IF i < 1 THEN 0
    ELSE IF s[i] = sep THEN i
    ELSE FindLast(s, sep, i - 1)

RECURSIVE ParseLinesLastColon(_, _)
ParseLinesLastColon(attrs, lines) ==
    IF lines = <<>> THEN attrs
    ELSE LET line == Head(lines)
             i == FindLast(line, ":", Len(line))
             next == IF i = 0 THEN attrs
                     ELSE DictSet(attrs, Strip(SubSeq(line, 1, i - 1)),
                                  Strip(SubSeq(line, i + 1, Len(line))))
         IN  ParseLinesLastColon(next, Tail(lines))

ParseAttributesLastColon(text) == ParseLinesLastColon(<<>>, Split(text, "\n"))

\* attributes = {} ; for line in attr_input.split('\n'): ...
ParseAttributes(text) == ParseLines(<<>>, Split(text, "\n"))

(***************************************************************************)
(* get_system_prompt                                                       *)
(***************************************************************************)
BaseCategories ==
    {<<"Electronics">>, <<"Fashion">>, <<"Home & Kitchen">>, <<"General">>}

base_prompts ==
    [c \in BaseCategories |->
        CASE c = <<"Electronics">> ->
                 <<"You are a tech copywriter.",
                   " Focus on specifications, performance, and compatibility.">>
          [] c = <<"Fashion">> ->
                 <<"You are a fashion stylist.",
                   " Focus on fabric feel, fit, and occasion.">>
          [] c = <<"Home & Kitchen">> ->
                 <<"You are an interior designer.",
                   " Focus on aesthetics, durability, and usage.">>
          [] c = <<"General">> ->
                 <<"You are a professional copywriter.",
                   " Focus on benefits and value proposition.">>]

\* mutant: an unrecognized category gets no instruction instead of General's
get_system_prompt_nofallback(category, tone_) ==
    LET selected_prompt ==
            IF category \in DOMAIN base_prompts
                THEN base_prompts[category]
                ELSE <<>>
    IN  selected_prompt \o <<" Write in a ">> \o tone_
            \o <<" tone.", " Do not invent features not listed.">>

get_system_prompt(category, tone_) ==
    LET selected_prompt ==
            IF category \in DOMAIN base_prompts
                THEN base_prompts[category]
                ELSE base_prompts[<<"General">>]
    IN  selected_prompt \o <<" Write in a ">> \o tone_
            \o <<" tone.", " Do not invent features not listed.">>

(***************************************************************************)
(* str(), repr() and json.dumps of a Python value                          *)
(***************************************************************************)
RECURSIVE PyRepr(_), ReprList(_), ReprItems(_)
PyRepr(val) ==
    CASE val.t = "none" -> <<"None">>
      [] val.t = "str"  -> <<"'">> \o val.v \o <<"'">>
      [] val.t = "int"  -> <<ToString(val.v)>>
      [] val.t = "bool" -> IF val.v THEN <<"True">> ELSE <<"False">>
      [] val.t = "list" -> <<"[">> \o ReprList(val.v) \o <<"]">>
      [] val.t = "dict" -> <<"{">> \o ReprItems(val.v) \o <<"}">>

ReprList(elems) ==
    IF elems = <<>> THEN <<>>
    ELSE IF Len(elems) = 1 THEN PyRepr(elems[1])
    ELSE PyRepr(elems[1]) \o <<",", " ">> \o ReprList(Tail(elems))

ReprItems(items) ==
    IF items = <<>> THEN <<>>
    ELSE LET one == PyRepr(StrV(items[1][1])) \o <<":", " ">> \o PyRepr(items[1][2])
         IN  IF Len(items) = 1 THEN one
             ELSE one \o <<",", " ">> \o ReprItems(Tail(items))

\* str(val), as an f-string formats it
PyStr(val) == IF val.t = "str" THEN val.v ELSE PyRepr(val)

RECURSIVE JsonDumps(_), DumpList(_), DumpItems(_)
JsonDumps(val) ==
    CASE val.t = "none" -> <<"null">>
      [] val.t = "str"  -> <<"\"">> \o val.v \o <<"\"">>
      [] val.t = "int"  -> <<ToString(val.v)>>
      [] val.t = "bool" -> IF val.v THEN <<"true">> ELSE <<"false">>
      [] val.t = "list" -> <<"[">> \o DumpList(val.v) \o <<"]">>
      [] val.t = "dict" -> <<"{">> \o DumpItems(val.v) \o <<"}">>

DumpList(elems) ==
    IF elems = <<>> THEN <<>>
    ELSE IF Len(elems) = 1 THEN JsonDumps(elems[1])
    ELSE JsonDumps(elems[1]) \o <<",", " ">> \o DumpList(Tail(elems))

DumpItems(items) ==
    IF items = <<>> THEN <<>>
    ELSE LET one == JsonDumps(StrV(items[1][1])) \o <<":", " ">>
                        \o JsonDumps(items[1][2])
         IN  IF Len(items) = 1 THEN one
             ELSE one \o <<",", " ">> \o DumpItems(Tail(items))

(***************************************************************************)
(* json.loads                                                              *)
(***************************************************************************)
Digits == <<"0", "1", "2", "3", "4", "5", "6", "7", "8", "9">>

IsDigit(c) == \E i \in 1..Len(Digits) : Digits[i] = c

DigitVal(c) == (CHOOSE i \in 1..Len(Digits) : Digits[i] = c) - 1

Raise(type, msg) == [ok |-> FALSE, exc |-> [type |-> type, msg |-> msg]]

Return(val) == [ok |-> TRUE, val |-> val]

\* a parser step that succeeded with value val and continues at index next
Parsed(val, next) == [ok |-> TRUE, val |-> val, next |-> next]

DecodeError(msg) == Raise("JSONDecodeError", <<msg>>)

RECURSIVE SkipWs(_, _)
SkipWs(s, i) ==
    IF i <= Len(s) /\ IsSpace(s[i]) THEN SkipWs(s, i + 1) ELSE i

RECURSIVE ScanDigits(_, _, _)
ScanDigits(s, i, acc) ==
    IF i <= Len(s) /\ IsDigit(s[i])
        THEN ScanDigits(s, i + 1, acc * 10 + DigitVal(s[i]))
        ELSE Parsed(IntV(acc), i)

\* an integer: an optional minus, then 0 or a run of digits not starting with 0
ScanNumber(s, i) ==
    LET neg == s[i] = "-"
        j   == IF neg THEN i + 1 ELSE i
    IN  IF j > Len(s) \/ ~IsDigit(s[j]) THEN DecodeError("Expecting value")
        ELSE LET r == IF s[j] = "0" THEN Parsed(IntV(0), j + 1)
                      ELSE ScanDigits(s, j, 0)
             IN  IF neg THEN Parsed(IntV(0 - r.val.v), r.next) ELSE r

\* a string: the atoms up to the closing quote
ScanString(s, i) ==
    LET k == Find(s, "\"", i + 1)
    IN  IF k = 0 THEN DecodeError("Unterminated string")
        ELSE Parsed(StrV(SubSeq(s, i + 1, k - 1)), k + 1)

RECURSIVE ScanValue(_, _), ScanArray(_, _, _), ScanObject(_, _, _)
ScanValue(s, i0) ==
    LET i == SkipWs(s, i0)
    IN  IF i > Len(s) THEN DecodeError("Expecting value")
        ELSE CASE s[i] = "{"     -> ScanObject(s, i + 1, <<>>)
               [] s[i] = "["     -> ScanArray(s, i + 1, <<>>)
               [] s[i] = "\""    -> ScanString(s, i)
               [] s[i] = "null"  -> Parsed(NoneV, i + 1)
               [] s[i] = "true"  -> Parsed(BoolV(TRUE), i + 1)
               [] s[i] = "false" -> Parsed(BoolV(FALSE), i + 1)
               [] s[i] = "-" \/ IsDigit(s[i]) -> ScanNumber(s, i)
               [] OTHER          -> DecodeError("Expecting value")

\* after "[" or after a comma: elems are the elements read so far
ScanArray(s, i0, elems) ==
    LET i == SkipWs(s, i0)
    IN  IF i <= Len(s) /\ s[i] = "]" /\ elems = <<>>
            THEN Parsed(ListV(elems), i + 1)
        ELSE LET r == ScanValue(s, i)
             IN  IF ~r.ok THEN r
                 ELSE LET j == SkipWs(s, r.next)
                          more == Append(elems, r.val)
                      IN  IF j > Len(s) THEN DecodeError("Expecting ',' delimiter")
                          ELSE IF s[j] = "," THEN ScanArray(s, j + 1, more)
                          ELSE IF s[j] = "]" THEN Parsed(ListV(more), j + 1)
                          ELSE DecodeError("Expecting ',' delimiter")

\* after "{" or after a comma: items are the members read so far
ScanObject(s, i0, items) ==
    LET i == SkipWs(s, i0)
    IN  IF i <= Len(s) /\ s[i] = "}" /\ items = <<>>
            THEN Parsed(DictV(items), i + 1)
        ELSE IF i > Len(s) \/ s[i] # "\""
            THEN DecodeError("Expecting property name enclosed in double quotes")
        ELSE LET k == ScanString(s, i)
             IN  IF ~k.ok THEN k
                 ELSE LET c == SkipWs(s, k.next)
                      IN  IF c > Len(s) \/ s[c] # ":"
                              THEN DecodeError("Expecting ':' delimiter")
                          ELSE LET r == ScanValue(s, c + 1)
                               IN  IF ~r.ok THEN r
                                   ELSE LET j == SkipWs(s, r.next)
                                            more == DictSet(items, k.val.v, r.val)
                                        IN  IF j > Len(s)
                                                THEN DecodeError("Expecting ',' delimiter")
                                            ELSE IF s[j] = ","
                                                THEN ScanObject(s, j + 1, more)
                                            ELSE IF s[j] = "}"
                                                THEN Parsed(DictV(more), j + 1)
                                            ELSE DecodeError("Expecting ',' delimiter")

\* json.loads(val): the parsed value, or the exception it raises
JsonLoads(val) ==
    IF val.t # "str"
        THEN Raise("TypeError",
                   <<"the JSON object must be str, bytes or bytearray, not ">>
                       \o <<"NoneType">>)
    ELSE LET r == ScanValue(val.v, 1)
         IN  IF ~r.ok THEN r
             ELSE IF SkipWs(val.v, r.next) <= Len(val.v)
                 THEN DecodeError("Extra data")
             ELSE Return(r.val)

(***************************************************************************)
(* The remote chat-completions service                                     *)
(***************************************************************************)
\* a reply whose first choice carries the message content c
Reply(c) == [raise |-> FALSE, choices |-> <<[message |-> [content |-> c]]>>]

NoChoices == [raise |-> FALSE, choices |-> <<>>]

\* the call raises: no connection, rejected credential
Failure(type, msg) == [raise |-> TRUE, exc |-> [type |-> type, msg |-> msg]]

TransportFailures ==
    {Failure("APIConnectionError", <<"Connection error.">>),
     Failure("AuthenticationError", <<"Error code: 401">>)}

Q(w) == <<"\"", w, "\"">>

GoodJudgment ==
    <<"{">> \o Q("score") \o <<":", " ", "8", ",", " ">>
        \o Q("consistency_check") \o <<":", " ">> \o Q("Pass") \o <<",", " ">>
        \o Q("tone_feedback") \o <<":", " ">> \o Q("Matches the tone.") \o <<"}">>

OutOfRangeJudgment ==
    <<"{">> \o Q("score") \o <<":", " ", "4", "2", ",", " ">>
        \o Q("consistency_check") \o <<":", " ">> \o Q("Fail") \o <<",", " ">>
        \o Q("tone_feedback") \o <<":", " ">> \o Q("Too dry.") \o <<",", " ">>
        \o Q("notes") \o <<":", " ", "[", "-", "1", ",", " ", "null", "]", "}">>

OffScriptJudgment ==
    <<"{">> \o Q("score") \o <<":", " ">> \o Q("high") \o <<",", " ">>
        \o Q("consistency_check") \o <<":", " ">> \o Q("Maybe") \o <<"}">>

DuplicateKeyJudgment ==
    <<"\n", "{">> \o Q("score") \o <<":", "1", ",">> \o Q("score")
        \o <<":", "9", "}", "\n">>

EvalTexts ==
    {GoodJudgment, OutOfRangeJudgment, OffScriptJudgment, DuplicateKeyJudgment,
     <<"{", "}">>,
     <<"[", "8", "]">>,
     <<"7">>,
     Q("Pass"),
     <<"null">>,
     <<>>,
     <<"Sure!", " ", "Here is the JSON">>,
     <<"{">> \o Q("score") \o <<":", " ", "8">>,
     <<"{", "}", " ", "{", "}">>}

DescTexts ==
    {<<"Midnight Blue headphones with 30 hours of battery.">>,
     <<" ", "Sleek and light.", "\n">>,
     <<>>}

DescResponses ==
    {Reply(StrV(t)) : t \in DescTexts} \cup {Reply(NoneV), NoChoices}
        \cup TransportFailures

EvalResponses ==
    {Reply(StrV(t)) : t \in EvalTexts} \cup {Reply(NoneV), NoChoices}
        \cup TransportFailures

\* response.choices[0].message.content, inside the try block
FirstChoiceContent(response) ==
    IF response.raise THEN Raise(response.exc.type, response.exc.msg)
    ELSE IF response.choices = <<>>
        THEN Raise("IndexError", <<"list index out of range">>)
    ELSE Return(response.choices[1].message.content)

(***************************************************************************)
(* generate_description                                                    *)
(***************************************************************************)
ModelId == <<"llama-3.3-70b-versatile">>

SpecLines(items) ==
    [i \in 1..Len(items) |-> <<"- ">> \o items[i][1] \o <<":", " ">> \o items[i][2]]

\* the call of client.chat.completions.create
DescriptionRequest(product) ==
    LET specs_text == Join(SpecLines(product.attributes), <<"\n">>)
        user_message ==
            <<"\n", "    Product Name: ">> \o product.name
                \o <<"\n", "    Category: ">> \o product.category
                \o <<"\n", "    Features:", "\n", "    ">> \o specs_text
                \o <<"\n", "    ">>
    IN  [by |-> "generate_description",
         model |-> ModelId,
         messages |-> <<[role |-> "system",
                         content |-> get_system_prompt(product.category,
                                                       product.tone)],
                        [role |-> "user", content |-> user_message]>>,
         temperature |-> "0.7",
         response_format |-> "unset"]

\* mutant: the failure detail is returned without the "Error: " prefix
GenerateDescriptionBareDetail(response) ==
    LET r == FirstChoiceContent(response)
    IN  IF r.ok THEN r.val ELSE StrV(r.exc.msg)

\* the try/except around the call: the value generate_description returns
GenerateDescriptionResult(response) ==
    LET r == FirstChoiceContent(response)
    IN  IF r.ok THEN r.val ELSE StrV(<<"Error: ">> \o r.exc.msg)

(***************************************************************************)
(* evaluate_quality                                                        *)
(***************************************************************************)
QaPrompt ==
    <<"\n", "    You are a Quality Assurance AI.",
      " Compare the input data to the generated description.",
      "\n", "    Return a valid JSON object with these keys:",
      "\n", "    - \"score\": (integer 1-10)",
      "\n", "    - \"consistency_check\": (string) \"Pass\" if all input facts are present, else \"Fail\".",
      "\n", "    - \"tone_feedback\": (string) Brief comment on the tone.",
      "\n", "    ">>

\* product_data.model_dump()
ModelDump(product) ==
    DictV(<< <<<<"name">>, StrV(product.name)>>,
             <<<<"category">>, StrV(product.category)>>,
             <<<<"attributes">>,
               DictV([i \in 1..Len(product.attributes) |->
                         <<product.attributes[i][1],
                           StrV(product.attributes[i][2])>>])>>,
             <<<<"tone">>, StrV(product.tone)>> >>)

EvaluationUserMessage(input_data, generated_text) ==
    <<"\n", "    INPUT DATA: ">> \o JsonDumps(input_data)
        \o <<"\n", "    GENERATED TEXT: ">> \o PyStr(generated_text)
        \o <<"\n", "    ">>

EvaluationRequest(input_data, generated_text) ==
    [by |-> "evaluate_quality",
     model |-> ModelId,
     messages |-> <<[role |-> "system", content |-> QaPrompt],
                    [role |-> "user",
                     content |-> EvaluationUserMessage(input_data,
                                                       generated_text)]>>,
     temperature |-> "unset",
     response_format |-> "json_object"]

\* the dict the except branch returns
ErrorJudgment(msg) ==
    DictV(<< <<<<"score">>, IntV(0)>>,
             <<<<"consistency_check">>, StrV(<<"Error">>)>>,
             <<<<"tone_feedback">>, StrV(msg)>> >>)

\* mutant: a reply that is not JSON yields an empty judgment
EvaluateQualityEmptyOnParseError(response) ==
    LET r == FirstChoiceContent(response)
    IN  IF ~r.ok THEN ErrorJudgment(r.exc.msg)
        ELSE LET j == JsonLoads(r.val)
             IN  IF j.ok THEN j.val ELSE DictV(<<>>)

\* mutant: the except branch reports the check as failed
EvaluateQualityFailOnError(response) ==
    LET r == FirstChoiceContent(response)
        failed(msg) == DictV(<< <<<<"score">>, IntV(0)>>,
                                <<<<"consistency_check">>, StrV(<<"Fail">>)>>,
                                <<<<"tone_feedback">>, StrV(msg)>> >>)
    IN  IF ~r.ok THEN failed(r.exc.msg)
        ELSE LET j == JsonLoads(r.val)
             IN  IF j.ok THEN j.val ELSE failed(j.exc.msg)

\* mutant: an integer score is clamped to 1..10
EvaluateQualityClamped(response) ==
    LET r == FirstChoiceContent(response)
        clamp(val) ==
            IF val.t = "dict" /\ DictGet(val.v, <<"score">>).t = "int"
                THEN LET n == DictGet(val.v, <<"score">>).v
                     IN  DictV(DictSet(val.v, <<"score">>,
                                       IntV(IF n > 10 THEN 10
                                            ELSE IF n < 1 THEN 1 ELSE n)))
                ELSE val
    IN  IF ~r.ok THEN ErrorJudgment(r.exc.msg)
        ELSE LET j == JsonLoads(r.val)
             IN  IF j.ok THEN clamp(j.val) ELSE ErrorJudgment(j.exc.msg)

\* the try/except around the call and json.loads
EvaluateQualityResult(response) ==
    LET r == FirstChoiceContent(response)
    IN  IF ~r.ok THEN ErrorJudgment(r.exc.msg)
        ELSE LET j == JsonLoads(r.val)
             IN  IF j.ok THEN j.val ELSE ErrorJudgment(j.exc.msg)

(***************************************************************************)
(* The page                                                                *)
(***************************************************************************)
Shown(widget, body) == [widget |-> widget, body |-> body]

MissingKeyMessage ==
    <<"GROQ_API_KEY is missing!", " Please create a .env file with your key.">>

CategoryOptions ==
    {<<"Electronics">>, <<"Fashion">>, <<"Home & Kitchen">>, <<"Other">>}

ToneOptions == {<<"Professional">>, <<"Casual">>, <<"Luxury">>, <<"Witty">>}

DefaultName == <<"Sony WH-1000XM5">>

DefaultAttributes ==
    <<"Color", ":", " ", "Midnight Blue", "\n",
      "Noise Cancellation", ":", " ", "Active", "\n",
      "Battery", ":", " ", "30 Hours">>

\* what a user may type into the name and feature boxes
NameTexts == {DefaultName, <<>>}

FeatureTexts ==
    {DefaultAttributes,
     <<>>,
     <<"Color", ":", " ", "Blue", "\n", "Battery", "\n",
       "Size", ":", " ", "10 in", "\n", "Color", ":", " ", "Red">>}

\* the process environment a run may start in
Environments == {NoneV, StrV(<<>>), StrV(<<"gsk_live_key">>)}

\* mutant: only an absent variable counts as missing
KeyMissingOnlyNone(key) == key.t = "none"

\* if not api_key
KeyMissing(key) == ~Truthy(key)

Blank ==
    /\ api_key = Undef
    /\ client = Undef
    /\ form = FALSE
    /\ cat = Undef
    /\ p_name = Undef
    /\ tone = Undef
    /\ attributes = Undef
    /\ product_data = Undef
    /\ description = Undef
    /\ eval_result = Undef
    /\ gen_response = Undef
    /\ eval_response = Undef
    /\ requests = <<>>
    /\ display = <<>>
    /\ exception = Undef
    /\ prompt_out = Undef

Init ==
    /\ pc = "startup"
    /\ environ \in Environments
    /\ attr_input = Undef
    /\ Blank

\* module level, from load_dotenv() to the button: the key check, the client,
\* the title and the sidebar widgets with their default values
Startup ==
    /\ pc = "startup"
    /\ api_key' = environ
    /\ IF KeyMissing(environ)
          THEN /\ display' = <<Shown("error", MissingKeyMessage)>>
               /\ pc' = "halted"
               /\ UNCHANGED <<client, form, cat, p_name, attr_input, tone>>
          ELSE /\ client' = [base_url |-> "https://api.groq.com/openai/v1",
                             api_key |-> environ]
               /\ form' = TRUE
               /\ cat' = <<"Electronics">>
               /\ p_name' = DefaultName
               /\ attr_input' = DefaultAttributes
               /\ tone' = <<"Professional">>
               /\ display' = <<>>
               /\ pc' = "idle"
    /\ UNCHANGED <<environ, attributes, product_data, description, eval_result,
                   requests, exception, gen_response, eval_response, prompt_out>>

\* the user edits the widgets: the script reruns with generate_btn False and
\* the page shows the form alone
ChangeInputs ==
    /\ pc = "idle"
    /\ form
    /\ \E c \in CategoryOptions, n \in NameTexts, a \in FeatureTexts,
          t \in ToneOptions :
          /\ <<c, n, a, t>> # <<cat, p_name, attr_input, tone>>
          /\ cat' = c
          /\ p_name' = n
          /\ attr_input' = a
          /\ tone' = t
    /\ attributes' = Undef
    /\ product_data' = Undef
    /\ description' = Undef
    /\ eval_result' = Undef
    /\ gen_response' = Undef
    /\ eval_response' = Undef
    /\ requests' = <<>>
    /\ display' = <<>>
    /\ exception' = Undef
    /\ UNCHANGED <<pc, environ, api_key, client, form, prompt_out>>

\* the button is pressed: the script reruns with generate_btn True, parses the
\* attributes, builds the ProductInput and enters generate_description up to
\* its blocking call
Submit ==
    /\ pc = "idle"
    /\ form
    /\ attributes' = ParseAttributes(attr_input)
    /\ product_data' = [name |-> p_name, category |-> cat,
                        attributes |-> attributes', tone |-> tone]
    /\ requests' = <<DescriptionRequest(product_data')>>
    /\ display' = <<>>
    /\ description' = Undef
    /\ eval_result' = Undef
    /\ gen_response' = Undef
    /\ eval_response' = Undef
    /\ exception' = Undef
    /\ pc' = "generating"
    /\ UNCHANGED <<environ, api_key, client, form, cat, p_name, attr_input,
                   tone, prompt_out>>

\* the description call returns or raises; generate_description returns
GenerateReturn ==
    /\ pc = "generating"
    /\ \E response \in DescResponses :
          /\ gen_response' = response
          /\ description' = GenerateDescriptionResult(response)
    /\ pc' = "show_description"
    /\ UNCHANGED <<environ, api_key, client, form, cat, p_name, attr_input,
                   tone, attributes, product_data, eval_result, requests,
                   display, exception, eval_response, prompt_out>>

\* mutant: the description is held back until the evaluation is done
ShowDescriptionDeferred ==
    /\ pc = "show_description"
    /\ pc' = "evaluate"
    /\ UNCHANGED <<environ, api_key, client, form, cat, p_name, attr_input,
                   tone, attributes, product_data, description, eval_result,
                   requests, display, exception, gen_response, eval_response,
                   prompt_out>>

\* with col1: the subheader and the description as a block quote
ShowDescription ==
    /\ pc = "show_description"
    /\ display' = display
          \o <<Shown("subheader", <<"Generated Description">>),
               Shown("markdown", <<"> ">> \o PyStr(description))>>
    /\ pc' = "evaluate"
    /\ UNCHANGED <<environ, api_key, client, form, cat, p_name, attr_input,
                   tone, attributes, product_data, description, eval_result,
                   requests, exception, gen_response, eval_response,
                   prompt_out>>

\* mutant: a failed description is not sent for evaluation
EvaluateCallUnlessError ==
    /\ pc = "evaluate"
    /\ display' = Append(display, Shown("subheader", <<"Quality Score">>))
    /\ requests' =
          IF description.t = "str" /\ description.v # <<>>
                /\ Head(description.v) = "Error: "
              THEN requests
              ELSE Append(requests,
                          EvaluationRequest(ModelDump(product_data), description))
    /\ pc' = "evaluating"
    /\ UNCHANGED <<environ, api_key, client, form, cat, p_name, attr_input,
                   tone, attributes, product_data, description, eval_result,
                   exception, gen_response, eval_response, prompt_out>>

\* with col2: the subheader, then evaluate_quality up to its blocking call
EvaluateCall ==
    /\ pc = "evaluate"
    /\ display' = Append(display, Shown("subheader", <<"Quality Score">>))
    /\ requests' = Append(requests,
                          EvaluationRequest(ModelDump(product_data), description))
    /\ pc' = "evaluating"
    /\ UNCHANGED <<environ, api_key, client, form, cat, p_name, attr_input,
                   tone, attributes, product_data, description, eval_result,
                   exception, gen_response, eval_response, prompt_out>>

\* the evaluation call returns or raises; evaluate_quality returns
EvaluateReturn ==
    /\ pc = "evaluating"
    /\ \E response \in EvalResponses :
          /\ eval_response' = response
          /\ eval_result' = EvaluateQualityResult(response)
    /\ pc' = "show_evaluation"
    /\ UNCHANGED <<environ, api_key, client, form, cat, p_name, attr_input,
                   tone, attributes, product_data, description, requests,
                   display, exception, gen_response, prompt_out>>

\* type(val).__name__
TypeName(val) ==
    CASE val.t = "none" -> "NoneType"
      [] val.t = "str"  -> "str"
      [] val.t = "int"  -> "int"
      [] val.t = "bool" -> "bool"
      [] val.t = "list" -> "list"
      [] val.t = "dict" -> "dict"

\* the metric, the status box and the tone comment; eval_result.get raises
\* AttributeError on anything but a dict and the run ends there
ShowEvaluation ==
    /\ pc = "show_evaluation"
    /\ IF eval_result.t = "dict"
          THEN /\ display' = display
                    \o <<Shown("metric",
                               <<"Consistency Score">>
                                   \o PyStr(DictGet(eval_result.v, <<"score">>))
                                   \o <<"/10">>),
                         IF DictGet(eval_result.v, <<"consistency_check">>)
                                = StrV(<<"Pass">>)
                             THEN Shown("success", <<"Specs Match">>)
                             ELSE Shown("error", <<"Missing Info">>),
                         Shown("info",
                               <<"**Tone:** ">>
                                   \o PyStr(DictGet(eval_result.v,
                                                    <<"tone_feedback">>)))>>
               /\ UNCHANGED exception
          ELSE /\ exception' =
                      [type |-> "AttributeError",
                       msg |-> <<"'", TypeName(eval_result),
                                 "' object has no attribute 'get'">>]
               /\ UNCHANGED display
    /\ pc' = "idle"
    /\ UNCHANGED <<environ, api_key, client, form, cat, p_name, attr_input,
                   tone, attributes, product_data, description, eval_result,
                   requests, gen_response, eval_response, prompt_out>>

Next ==
    \/ Startup
    \/ ChangeInputs
    \/ Submit
    \/ GenerateReturn
    \/ ShowDescription
    \/ EvaluateCall
    \/ EvaluateReturn
    \/ ShowEvaluation

Spec == Init /\ [][Next]_vars

(***************************************************************************)
(* The attribute parser on every short text                                *)
(***************************************************************************)
Alphabet == {"k", ":", " ", "\n"}

Texts(n) == UNION {[1..m -> Alphabet] : m \in 0..n}

InitParse ==
    /\ pc = "parse_call"
    /\ environ = NoneV
    /\ attr_input \in Texts(MaxLen)
    /\ Blank

RunParse ==
    /\ pc = "parse_call"
    /\ attributes' = ParseAttributes(attr_input)
    /\ pc' = "parse_done"
    /\ UNCHANGED <<environ, api_key, client, form, cat, p_name, attr_input,
                   tone, product_data, description, eval_result, requests,
                   display, exception, gen_response, eval_response,
                   prompt_out>>

NextParse == RunParse

SpecParse == InitParse /\ [][NextParse]_vars

(***************************************************************************)
(* get_system_prompt on every category and tone                            *)
(***************************************************************************)
PromptCategories ==
    BaseCategories \cup {<<"Other">>, <<>>, <<"electronics">>, <<"Toys">>}

PromptTones == ToneOptions \cup {<<>>, <<"Formal">>, <<"Dry">>}

InitPrompt ==
    /\ pc = "prompt_call"
    /\ environ = NoneV
    /\ attr_input = Undef
    /\ api_key = Undef
    /\ client = Undef
    /\ form = FALSE
    /\ cat \in PromptCategories
    /\ p_name = Undef
    /\ tone \in PromptTones
    /\ attributes = Undef
    /\ product_data = Undef
    /\ description = Undef
    /\ eval_result = Undef
    /\ gen_response = Undef
    /\ eval_response = Undef
    /\ requests = <<>>
    /\ display = <<>>
    /\ exception = Undef
    /\ prompt_out = Undef

RunPrompt ==
    /\ pc = "prompt_call"
    /\ prompt_out' = get_system_prompt(cat, tone)
    /\ pc' = "prompt_done"
    /\ UNCHANGED <<environ, api_key, client, form, cat, p_name, attr_input,
                   tone, attributes, product_data, description, eval_result,
                   requests, display, exception, gen_response, eval_response>>

NextPrompt == RunPrompt

SpecPrompt == InitPrompt /\ [][NextPrompt]_vars

(***************************************************************************)
(* C1: the attribute parser                                                *)
(***************************************************************************)
\* the lines of a text, each named by the index where it starts
LineStarts(text) == {1} \cup {i + 1 : i \in {j \in 1..Len(text) : text[j] = "\n"}}

LineAt(text, st) ==
    LET e == CHOOSE e \in (st - 1)..Len(text) :
                 /\ e = Len(text) \/ text[e + 1] = "\n"
                 /\ \A j \in st..e : text[j] # "\n"
    IN  SubSeq(text, st, e)

FirstColon(line) ==
    CHOOSE i \in 1..Len(line) :
        line[i] = ":" /\ \A j \in 1..(i - 1) : line[j] # ":"

Trimmed(s) ==
    LET solid == {i \in 1..Len(s) : ~IsSpace(s[i])}
    IN  IF solid = {} THEN <<>>
        ELSE SubSeq(s, CHOOSE i \in solid : \A j \in solid : i <= j,
                       CHOOSE i \in solid : \A j \in solid : j <= i)

KeyOf(line) == Trimmed(SubSeq(line, 1, FirstColon(line) - 1))

ValueOf(line) == Trimmed(SubSeq(line, FirstColon(line) + 1, Len(line)))

ColonLines(text) ==
    {st \in LineStarts(text) : \E i \in 1..Len(LineAt(text, st)) :
                                   LineAt(text, st)[i] = ":"}

\* C1: after parsing, the keys of the mapping are exactly the trimmed
\* before-the-first-colon parts of the lines that have a colon (a line without
\* one adds nothing), no key occurs twice, and each key's value is the trimmed
\* remainder of the last line with that key.
C1_AttributeParsing ==
    pc = "parse_done" =>
        LET with == ColonLines(attr_input)
        IN  /\ DictKeys(attributes)
                   = {KeyOf(LineAt(attr_input, st)) : st \in with}
            /\ \A i, j \in 1..Len(attributes) :
                   attributes[i][1] = attributes[j][1] => i = j
            /\ \A st \in with :
                   LET line == LineAt(attr_input, st)
                   IN  (\A later \in with :
                            later > st =>
                                KeyOf(LineAt(attr_input, later)) # KeyOf(line))
                           => DictGet(attributes, KeyOf(line)) = ValueOf(line)

\* a text with a colon-less line, a line with two colons, and a key given twice
\* with different values has been parsed
C1_Witness ==
    /\ pc = "parse_done"
    /\ \E st \in LineStarts(attr_input) : st \notin ColonLines(attr_input)
    /\ \E a, b \in ColonLines(attr_input) :
           /\ a < b
           /\ KeyOf(LineAt(attr_input, a)) = KeyOf(LineAt(attr_input, b))
           /\ ValueOf(LineAt(attr_input, a)) # ValueOf(LineAt(attr_input, b))
           /\ \E i \in 1..Len(ValueOf(LineAt(attr_input, b))) :
                  ValueOf(LineAt(attr_input, b))[i] = ":"

(***************************************************************************)
(* C9: get_system_prompt                                                   *)
(***************************************************************************)
ToneSuffix(t) ==
    <<" Write in a ">> \o t \o <<" tone.", " Do not invent features not listed.">>

\* C9: for one of the four table categories the prompt is that category's
\* instruction followed by the tone suffix; for any other category it is the
\* prompt of General with the same tone.
C9_SystemPrompt ==
    pc = "prompt_done" =>
        /\ cat \in BaseCategories => prompt_out = base_prompts[cat] \o ToneSuffix(tone)
        /\ cat \notin BaseCategories =>
               /\ prompt_out = get_system_prompt(<<"General">>, tone)
               /\ prompt_out = <<"You are a professional copywriter.",
                                 " Focus on benefits and value proposition.">>
                                   \o ToneSuffix(tone)

C9_Witness ==
    /\ pc = "prompt_done"
    /\ cat = <<"Other">>
    /\ tone = <<"Witty">>
    /\ prompt_out = <<"You are a professional copywriter.",
                      " Focus on benefits and value proposition.",
                      " Write in a ", "Witty", " tone.",
                      " Do not invent features not listed.">>

(***************************************************************************)
(* Claims about the two client functions                                   *)
(***************************************************************************)
\* the remote call did not deliver a first choice
Failed(response) == response.raise \/ response.choices = <<>>

FailureDetail(response) ==
    IF response.raise THEN response.exc.msg ELSE <<"list index out of range">>

Content(response) == response.choices[1].message.content

\* C2: when the description call fails (it raises, or its choices list is
\* empty), generate_description returns "Error: " followed by the detail.
C2_GenerateErrorString ==
    (gen_response # Undef /\ Failed(gen_response)) =>
        /\ description.t = "str"
        /\ description.v # <<>>
        /\ Head(description.v) = "Error: "
        /\ Tail(description.v) = FailureDetail(gen_response)

C2_Witness ==
    /\ gen_response = NoChoices
    /\ description = StrV(<<"Error: ", "list index out of range">>)

\* C3: when the evaluation call fails or its text is not JSON, evaluate_quality
\* returns score 0, consistency_check "Error" and the detail as tone_feedback.
C3_EvaluateErrorRecord ==
    (eval_response # Undef
        /\ (Failed(eval_response) \/ ~JsonLoads(Content(eval_response)).ok)) =>
        LET detail == IF Failed(eval_response)
                          THEN FailureDetail(eval_response)
                          ELSE JsonLoads(Content(eval_response)).exc.msg
        IN  eval_result =
                DictV(<< <<<<"score">>, IntV(0)>>,
                         <<<<"consistency_check">>, StrV(<<"Error">>)>>,
                         <<<<"tone_feedback">>, StrV(detail)>> >>)

C3_Witness ==
    /\ eval_response = Reply(StrV(<<"Sure!", " ", "Here is the JSON">>))
    /\ eval_result.t = "dict"
    /\ DictGet(eval_result.v, <<"score">>) = IntV(0)
    /\ DictGet(eval_result.v, <<"tone_feedback">>) = StrV(<<"Expecting value">>)

\* C10: on success generate_description returns the first choice's content as
\* it is, and evaluate_quality returns the parsed JSON as it is: an
\* out-of-range score stays, and the keys are those of the reply, in order.
C10_PassThrough ==
    /\ (gen_response # Undef /\ ~Failed(gen_response)) =>
           description = Content(gen_response)
    /\ (eval_response # Undef /\ ~Failed(eval_response)
           /\ JsonLoads(Content(eval_response)).ok) =>
           eval_result = JsonLoads(Content(eval_response)).val
    /\ eval_response = Reply(StrV(OutOfRangeJudgment)) =>
           /\ DictGet(eval_result.v, <<"score">>) = IntV(42)
           /\ [i \in 1..Len(eval_result.v) |-> eval_result.v[i][1]]
                  = <<<<"score">>, <<"consistency_check">>,
                      <<"tone_feedback">>, <<"notes">>>>

C10_Witness ==
    /\ gen_response = Reply(StrV(<<" ", "Sleek and light.", "\n">>))
    /\ description = StrV(<<" ", "Sleek and light.", "\n">>)
    /\ eval_response = Reply(StrV(OutOfRangeJudgment))
    /\ DictGet(eval_result.v, <<"score">>) = IntV(42)

Submitted == product_data # Undef

RunOver == pc = "idle" /\ Submitted

DescriptionShown == \E i \in 1..Len(display) : display[i].widget = "markdown"

JudgmentWidgets ==
    {i \in 1..Len(display) :
        \/ display[i].widget \in {"metric", "success", "info"}
        \/ display[i] = Shown("error", <<"Missing Info">>)}

\* C4: a submission issues the description request first and alone, the
\* evaluation request only after the description call has returned, with the
\* record and the returned text (an "Error: ..." text included), and a
\* finished run has issued exactly these two requests.
C4_OneRequestEach ==
    /\ pc = "generating" =>
           /\ requests = <<DescriptionRequest(product_data)>>
           /\ gen_response = Undef
    /\ pc \in {"show_description", "evaluate"} =>
           /\ requests = <<DescriptionRequest(product_data)>>
           /\ gen_response # Undef
    /\ (pc \in {"evaluating", "show_evaluation"} \/ RunOver) =>
           /\ Len(requests) = 2
           /\ requests[1] = DescriptionRequest(product_data)
           /\ requests[1].by = "generate_description"
           /\ requests[2].by = "evaluate_quality"
           /\ requests[2].messages[2].content
                  = <<"\n", "    INPUT DATA: ">>
                        \o JsonDumps(ModelDump(product_data))
                        \o <<"\n", "    GENERATED TEXT: ">>
                        \o PyStr(description) \o <<"\n", "    ">>
           /\ gen_response # Undef
    /\ pc = "evaluating" => eval_response = Undef

C4_Witness ==
    /\ RunOver
    /\ Failed(gen_response)
    /\ Len(requests) = 2
    /\ requests[2].by = "evaluate_quality"
    /\ \E i \in 1..Len(requests[2].messages[2].content) :
           requests[2].messages[2].content[i] = "Error: "

\* C5 as stated: nothing of a submission is shown before both calls are done.
C5_NoOutputBeforeBoth ==
    (Submitted /\ display # <<>>) =>
        (gen_response # Undef /\ eval_response # Undef)

\* C5 amended: the score, the status and the tone comment are shown only after
\* both calls are done; the description is shown after the description call
\* has returned and is on the page before the evaluation request is issued.
C5_JudgmentAfterBoth ==
    /\ JudgmentWidgets # {} => (gen_response # Undef /\ eval_response # Undef)
    /\ DescriptionShown => gen_response # Undef
    /\ Len(requests) = 2 => DescriptionShown

C5_Witness ==
    /\ pc = "evaluating"
    /\ DescriptionShown
    /\ eval_response = Undef
    /\ JudgmentWidgets = {}

\* C6: every finished submission ended without an exception and shows the
\* score, the status and the tone comment.
C6_AlwaysDisplays ==
    RunOver =>
        /\ exception = Undef
        /\ \E i \in 1..Len(display) : display[i].widget = "metric"
        /\ \E i \in 1..Len(display) : display[i].widget \in {"success", "error"}
        /\ \E i \in 1..Len(display) : display[i].widget = "info"

\* C7: with the credential absent or empty the run halts on the error: no
\* client, no form, no request.
C7_MissingKeyHalts ==
    (pc # "startup" /\ (environ = NoneV \/ environ = StrV(<<>>))) =>
        /\ pc = "halted"
        /\ client = Undef
        /\ ~form
        /\ requests = <<>>
        /\ display = <<Shown("error", MissingKeyMessage)>>

C7_Witness ==
    /\ pc = "halted"
    /\ environ = StrV(<<>>)
    /\ display # <<>>

====
